---- MODULE Spec2Model ----
(***************************************************************************)
(* Model of the bank-barcode crate (src/src/lib.rs): the BarcodeBuilder    *)
(* setters, BarcodeBuilder::build and the Display implementation of        *)
(* Barcode.  A Rust String is a sequence of one-character strings; every   *)
(* character used here is ASCII, so byte length and character count agree. *)
(***************************************************************************)
EXTENDS Integers, Sequences, FiniteSets, TLC

VARIABLES
    pc,        \* "staging": the builder is alive; "built": build() returned; "encoded": to_string() returned
    builder,   \* the BarcodeBuilder value (lib.rs:68-75)
    result,    \* the Result<Barcode, BuilderError> of build()
    out,       \* the outcome of to_string() on the built Barcode
    last,      \* history: for each builder field, the value last written by a setter
    call,      \* history: the last call and its argument
    ncalls     \* history: number of setter calls made

vars == <<pc, builder, result, out, last, call, ncalls>>

----------------------------------------------------------------------------
(* Strings *)

DigitChars == <<"0", "1", "2", "3", "4", "5", "6", "7", "8", "9">>

Digits == {DigitChars[i] : i \in 1..10}

UpperChars == <<"A", "B", "C", "D", "E", "F", "G", "H", "I", "J", "K", "L", "M",
                "N", "O", "P", "Q", "R", "S", "T", "U", "V", "W", "X", "Y", "Z">>

Uppers == {UpperChars[i] : i \in 1..26}

DigitVal(c) == (CHOOSE i \in 1..10 : DigitChars[i] = c) - 1

UpperVal(c) == (CHOOSE i \in 1..26 : UpperChars[i] = c) + 9

\* the string of the decimal digits listed in t
D(t) == [i \in 1..Len(t) |-> DigitChars[t[i] + 1]]

\* n copies of the character c
Rep(c, n) == [i \in 1..n |-> c]

AllDigits(s) == \A i \in 1..Len(s) : s[i] \in Digits

\* s[n..] of Rust, n counted from 0
From(s, n) == SubSeq(s, n + 1, Len(s))

\* s[..n] of Rust
Upto(s, n) == SubSeq(s, 1, n)

starts_with(s, p) == Len(s) >= Len(p) /\ SubSeq(s, 1, Len(p)) = p

\* format!("{:c>w}", s): fill on the left up to w characters, never truncate
PadLeft(s, c, w) == IF Len(s) >= w THEN s ELSE Rep(c, w - Len(s)) \o s

\* format!("{:c<w}", s): fill on the right up to w characters, never truncate
PadRight(s, c, w) == IF Len(s) >= w THEN s ELSE s \o Rep(c, w - Len(s))

RECURSIVE ToDigits(_)
\* Display of an unsigned integer
ToDigits(n) == IF n < 10 THEN <<DigitChars[n + 1]>>
               ELSE ToDigits(n \div 10) \o <<DigitChars[(n % 10) + 1]>>

----------------------------------------------------------------------------
(* str::parse::<u128>() *)

\* u128::MAX = 2^128 - 1, as its 39 decimal digits
U128MaxDigits == D(<<3,4,0,2,8,2,3,6,6,9,2,0,9,3,8,4,6,3,4,6,3,3,7,4,6,0,7,4,3,1,7,6,8,2,1,1,4,5,5>>)

RECURSIVE StripZeros(_)
StripZeros(s) == IF s # <<>> /\ Head(s) = "0" THEN StripZeros(Tail(s)) ELSE s

\* a <= b for two digit strings of the same length
LexLeq(a, b) ==
    \/ a = b
    \/ \E i \in 1..Len(a) : /\ SubSeq(a, 1, i - 1) = SubSeq(b, 1, i - 1)
                            /\ DigitVal(a[i]) < DigitVal(b[i])

FitsU128(ds) ==
    LET z == StripZeros(ds)
    IN  \/ Len(z) < Len(U128MaxDigits)
        \/ Len(z) = Len(U128MaxDigits) /\ LexLeq(z, U128MaxDigits)

\* TRUE iff s.parse::<u128>() is Ok: an optional leading '+', then at least
\* one decimal digit and nothing else, the value not above u128::MAX
ParseU128Ok(s) ==
    /\ s # <<>>
    /\ LET ds == IF Head(s) = "+" THEN Tail(s) ELSE s
       IN  /\ ds # <<>>
           /\ AllDigits(ds)
           /\ FitsU128(ds)

----------------------------------------------------------------------------
(* The account identifier: str::parse::<Iban>(), Iban::country_code(),     *)
(* Iban::as_str() as build() and fmt() use them.                           *)

FI == <<"F", "I">>

DE == <<"D", "E">>

\* the identifier without its grouping blanks
Electronic(s) == SelectSeq(s, LAMBDA c : c # " ")

RECURSIVE Mod97(_, _)
\* ISO 7064 remainder of the identifier, letters counting as 10..35
Mod97(s, acc) ==
    IF s = <<>> THEN acc
    ELSE LET c == Head(s)
         IN  Mod97(Tail(s), IF c \in Digits THEN (acc * 10 + DigitVal(c)) % 97
                            ELSE (acc * 100 + UpperVal(c)) % 97)

\* length of the national part for the countries the model's inputs use
BbanLen(cc) == IF cc = FI THEN 14 ELSE IF cc = DE THEN 18 ELSE -1

\* TRUE iff e is a well-formed identifier of a known country with a correct checksum
IbanValid(e) ==
    /\ Len(e) > 4
    /\ e[1] \in Uppers /\ e[2] \in Uppers
    /\ e[3] \in Digits /\ e[4] \in Digits
    /\ \A i \in 5..Len(e) : e[i] \in Digits
    /\ Len(e) - 4 = BbanLen(Upto(e, 2))
    /\ Mod97(From(e, 4) \o Upto(e, 4), 0) = 1

\* number.parse::<Iban>()
IbanParse(s) ==
    LET e == Electronic(s)
    IN  IF IbanValid(e) THEN [ok |-> TRUE, iban |-> e]
        ELSE [ok |-> FALSE, iban |-> <<>>]

country_code(iban) == Upto(iban, 2)

----------------------------------------------------------------------------
(* The due date: Month::try_from, Date::from_calendar_date and             *)
(* Date::format("[year repr:last_two][month][day]").                       *)

Abs(n) == IF n < 0 THEN 0 - n ELSE n

is_leap_year(y) == y % 4 = 0 /\ (y % 100 # 0 \/ y % 400 = 0)

days_in_month(y, m) ==
    IF m = 2 THEN (IF is_leap_year(y) THEN 29 ELSE 28)
    ELSE IF m \in {4, 6, 9, 11} THEN 30 ELSE 31

\* Month::try_from(month) and Date::from_calendar_date(year, month, day) are both Ok
from_calendar_date_ok(y, m, d) ==
    /\ m \in 1..12
    /\ d \in 1..days_in_month(y, m)

FormatDate(dt) ==
    PadLeft(ToDigits(Abs(dt.y) % 100), "0", 2)
        \o PadLeft(ToDigits(dt.m), "0", 2)
        \o PadLeft(ToDigits(dt.d), "0", 2)

----------------------------------------------------------------------------
(* Values of the builder's fields *)

V4 == "V4"

V5 == "V5"

\* Option<Either<Iban, String>>: tag "None", "Left" (an Iban) or "Right" (a String)
NoAccountNumber == [tag |-> "None", val |-> <<>>]

AccountLeft(iban) == [tag |-> "Left", val |-> iban]

AccountRight(s) == [tag |-> "Right", val |-> s]

\* Option<String>
NoReference == [some |-> FALSE, s |-> <<>>]

SomeReference(s) == [some |-> TRUE, s |-> s]

\* Option<Either<Date, (i32, u8, u8)>>
NoDueDate == [tag |-> "None", y |-> 0, m |-> 0, d |-> 0]

DueLeft(y, m, d) == [tag |-> "Left", y |-> y, m |-> m, d |-> d]

DueRight(y, m, d) == [tag |-> "Right", y |-> y, m |-> m, d |-> d]

\* Option<Date> of the Barcode
NoDate == [some |-> FALSE, y |-> 0, m |-> 0, d |-> 0]

SomeDate(y, m, d) == [some |-> TRUE, y |-> y, m |-> m, d |-> d]

\* BarcodeBuilder::default(), also Barcode::builder()
DefaultBuilder ==
    [version |-> V5, account_number |-> NoAccountNumber, euros |-> 0, cents |-> 0,
     reference |-> NoReference, due_date |-> NoDueDate]

----------------------------------------------------------------------------
(* The setters: each is Self { field, ..self } *)

\* version that fixes the reference default when the version is chosen
version_resets_reference(self, v) ==
    [self EXCEPT !.version = v,
                 !.reference = [some |-> TRUE,
                                s |-> IF v = "V4" THEN <<"0">> ELSE <<"R", "F", "0", "0">>]]

version(self, v) == [self EXCEPT !.version = v]

account_number(self, account) == [self EXCEPT !.account_number = AccountRight(account)]

account_number_iban(self, account) == [self EXCEPT !.account_number = AccountLeft(account)]

euros(self, n) == [self EXCEPT !.euros = n]

cents(self, n) == [self EXCEPT !.cents = n]

\* sum that sets the euros and leaves the cents as they were
sum_keeps_cents(self, n) == [self EXCEPT !.euros = n \div 100]

sum(self, n) == [self EXCEPT !.euros = n \div 100, !.cents = n % 100]

reference(self, r) == [self EXCEPT !.reference = SomeReference(r)]

due_date(self, dt) == [self EXCEPT !.due_date = DueLeft(dt.y, dt.m, dt.d)]

calendar_due_date(self, y, m, d) == [self EXCEPT !.due_date = DueRight(y, m, d)]

v4 == version(DefaultBuilder, V4)

v5 == version(DefaultBuilder, V5)

----------------------------------------------------------------------------
(* BarcodeBuilder::build *)

NoBarcode ==
    [version |-> V5, account_number |-> <<>>, euros |-> 0, cents |-> 0,
     reference |-> <<>>, due_date |-> NoDate]

Err(e) == [ok |-> FALSE, err |-> e, barcode |-> NoBarcode]

Ok(b) == [ok |-> TRUE, err |-> "", barcode |-> b]

\* lib.rs:105-109
ResolveAccount(a) ==
    IF a.tag = "Left" THEN [ok |-> TRUE, err |-> "", iban |-> a.val]
    ELSE IF a.tag = "Right"
         THEN LET p == IbanParse(a.val)
              IN  IF p.ok THEN [ok |-> TRUE, err |-> "", iban |-> p.iban]
                  ELSE [ok |-> FALSE, err |-> "InvalidAccount", iban |-> <<>>]
         ELSE [ok |-> FALSE, err |-> "NoAccount", iban |-> <<>>]

V4MaxLen == 20

V5MaxLen == 23

DefaultV4Reference == <<"0">>

\* the V5 default without its prefix
DefaultV5Reference_noprefix == <<"0", "0">>

DefaultV5Reference == <<"R", "F", "0", "0">>

\* the V4 branch with the length test off by one
ResolveReferenceV4_strict(r) ==
    IF r.some /\ ~ParseU128Ok(r.s) THEN [ok |-> FALSE, err |-> "InvalidReference", s |-> <<>>]
    ELSE LET ref == IF r.some THEN r.s ELSE DefaultV4Reference
         IN  IF Len(ref) >= V4MaxLen THEN [ok |-> FALSE, err |-> "ReferenceTooLarge", s |-> <<>>]
             ELSE [ok |-> TRUE, err |-> "", s |-> ref]

\* lib.rs:124-135
ResolveReferenceV4(r) ==
    IF r.some /\ ~ParseU128Ok(r.s) THEN [ok |-> FALSE, err |-> "InvalidReference", s |-> <<>>]
    ELSE LET ref == IF r.some THEN r.s ELSE DefaultV4Reference
         IN  IF Len(ref) > V4MaxLen THEN [ok |-> FALSE, err |-> "ReferenceTooLarge", s |-> <<>>]
             ELSE [ok |-> TRUE, err |-> "", s |-> ref]

\* lib.rs:136-149
ResolveReferenceV5(r) ==
    LET reference_rf == IF r.some THEN r.s ELSE DefaultV5Reference
    IN  IF ~starts_with(reference_rf, <<"R", "F">>)
        THEN [ok |-> FALSE, err |-> "MalformedReference", s |-> <<>>]
        ELSE IF ~ParseU128Ok(From(reference_rf, 2))
        THEN [ok |-> FALSE, err |-> "InvalidReference", s |-> <<>>]
        ELSE LET ref == From(reference_rf, 2)
             IN  IF Len(ref) > V5MaxLen
                 THEN [ok |-> FALSE, err |-> "ReferenceTooLarge", s |-> <<>>]
                 ELSE [ok |-> TRUE, err |-> "", s |-> ref]

\* lib.rs:123-150
ResolveReference(v, r) == IF v = V4 THEN ResolveReferenceV4(r) ELSE ResolveReferenceV5(r)

\* lib.rs:152-160
ResolveDueDate(dd) ==
    IF dd.tag = "Left" THEN [ok |-> TRUE, date |-> SomeDate(dd.y, dd.m, dd.d)]
    ELSE IF dd.tag = "Right"
         THEN IF from_calendar_date_ok(dd.y, dd.m, dd.d)
              THEN [ok |-> TRUE, date |-> SomeDate(dd.y, dd.m, dd.d)]
              ELSE [ok |-> FALSE, date |-> NoDate]
         ELSE [ok |-> TRUE, date |-> NoDate]

MaxCents == 100

MaxEuros == 999999

\* build with the euros test ahead of the cents test
build_euros_first(self) ==
    LET acc == ResolveAccount(self.account_number)
        ref == ResolveReference(self.version, self.reference)
        due == ResolveDueDate(self.due_date)
    IN  IF ~acc.ok THEN Err(acc.err)
        ELSE IF country_code(acc.iban) # FI THEN Err("AccountNotFinnish")
        ELSE IF self.euros >= MaxEuros THEN Err("SumTooLarge")
        ELSE IF self.cents >= MaxCents THEN Err("InvalidCents")
        ELSE IF ~ref.ok THEN Err(ref.err)
        ELSE IF ~due.ok THEN Err("InvalidDate")
        ELSE Ok([version |-> self.version, account_number |-> acc.iban,
                 euros |-> self.euros, cents |-> self.cents,
                 reference |-> ref.s, due_date |-> due.date])

build(self) ==
    LET acc == ResolveAccount(self.account_number)
        ref == ResolveReference(self.version, self.reference)
        due == ResolveDueDate(self.due_date)
    IN  IF ~acc.ok THEN Err(acc.err)
        ELSE IF country_code(acc.iban) # FI THEN Err("AccountNotFinnish")
        ELSE IF self.cents >= MaxCents THEN Err("InvalidCents")
        ELSE IF self.euros >= MaxEuros THEN Err("SumTooLarge")
        ELSE IF ~ref.ok THEN Err(ref.err)
        ELSE IF ~due.ok THEN Err("InvalidDate")
        ELSE Ok([version |-> self.version, account_number |-> acc.iban,
                 euros |-> self.euros, cents |-> self.cents,
                 reference |-> ref.s, due_date |-> due.date])

----------------------------------------------------------------------------
(* impl Display for Barcode *)

Panic == [ok |-> FALSE, s |-> <<>>]

Written(s) == [ok |-> TRUE, s |-> s]

\* lib.rs:276-283 and 302-309
DateSegment(dd) == IF dd.some THEN FormatDate(dd) ELSE Rep("0", 6)

\* the amount written without its zero fill
AmountSegment_unpadded(e, c) == ToDigits(e) \o ToDigits(c)

\* euros as {:0>6}, cents as {:0>2}
AmountSegment(e, c) == PadLeft(ToDigits(e), "0", 6) \o PadLeft(ToDigits(c), "0", 2)

\* a short reference filled on the wrong side
RefNro_padleft(ref) == IF Len(ref) < 2 THEN PadLeft(ref, "0", 2) ELSE ref

\* a short reference passed through as it is
RefNro_unpadded(ref) == ref

\* lib.rs:287-292
RefNro(ref) == IF Len(ref) < 2 THEN PadRight(ref, "0", 2) ELSE ref

\* lib.rs:268-285
FmtV4(b) ==
    IF Len(b.account_number) < 2 THEN Panic
    ELSE Written(<<"4">> \o From(b.account_number, 2)
                 \o AmountSegment(b.euros, b.cents)
                 \o <<"0", "0", "0">> \o PadLeft(b.reference, "0", 20)
                 \o DateSegment(b.due_date))

\* lib.rs:286-311
FmtV5(b) ==
    LET ref_nro == RefNro(b.reference)
    IN  IF Len(b.account_number) < 2 \/ Len(ref_nro) < 2 THEN Panic
        ELSE Written(<<"5">> \o From(b.account_number, 2)
                     \o AmountSegment(b.euros, b.cents)
                     \o Upto(ref_nro, 2) \o PadLeft(From(ref_nro, 2), "0", 21)
                     \o DateSegment(b.due_date))

fmt(b) == IF b.version = V4 THEN FmtV4(b) ELSE FmtV5(b)

----------------------------------------------------------------------------
(* Inputs *)

MaxCalls == 4      \* setter calls made on one builder

MaxRefLen == 24    \* digit strings of every length 0..MaxRefLen are offered as references

AccountFI73 == <<"F", "I", "7", "3", " ", "3", "1", "3", "1", " ", "3", "0", "0", "1", " ", "0", "0", "0", "0", " ", "5", "8">>

AccountFI79 == <<"F", "I", "7", "9", " ", "4", "4", "0", "5", " ", "2", "0", "2", "0", " ", "0", "3", "6", "0", " ", "8", "2">>

AccountDE89 == <<"D", "E", "8", "9", " ", "3", "7", "0", "4", " ", "0", "0", "4", "4", " ", "0", "5", "3", "2", " ", "0", "1", "3", "0", " ", "0", "0">>

AccountBadChecksum == <<"F", "I", "7", "4", " ", "3", "1", "3", "1", " ", "3", "0", "0", "1", " ", "0", "0", "0", "0", " ", "5", "8">>

AccountGarbage == <<"h", "e", "l", "l", "o">>

IbanFI79 == IbanParse(AccountFI79).iban

IbanDE89 == IbanParse(AccountDE89).iban

RF == <<"R", "F">>

\* "1234567890123..." cut to n digits
PatternDigits(n) == [i \in 1..n |-> DigitChars[(i % 10) + 1]]

\* digit strings of every length up to MaxRefLen
DigitRefs == {Rep("9", n) : n \in 0..MaxRefLen} \cup {PatternDigits(n) : n \in 0..MaxRefLen}

\* digit strings around the capacity of u128
LongRefs ==
    {U128MaxDigits,
     Upto(U128MaxDigits, Len(U128MaxDigits) - 1) \o <<"6">>,
     Rep("9", Len(U128MaxDigits)),
     Rep("9", Len(U128MaxDigits) + 1),
     Rep("0", Len(U128MaxDigits) + 1)}

\* strings that are not digit strings
OddRefs == {<<"+", "5">>, <<"-", "5">>, <<"+">>, <<"1", "2", "a">>, <<"5", " ">>}

PlainRefs == DigitRefs \cup LongRefs \cup OddRefs

ReferenceStrings == PlainRefs \cup {RF \o r : r \in PlainRefs}

DueDates ==
    {NoDueDate, DueLeft(2010, 6, 12), DueLeft(-44, 3, 15),
     DueRight(2024, 2, 29), DueRight(2023, 2, 29), DueRight(2010, 13, 1)}

\* the configurations build() is examined on; every one is reached by one call of each setter
StagedBuilders ==
    [version : {V4, V5},
     account_number : {NoAccountNumber, AccountRight(AccountFI73), AccountRight(AccountBadChecksum),
                       AccountRight(AccountDE89), AccountLeft(IbanFI79), AccountLeft(IbanDE89)},
     euros : {0, 999998, 999999},
     cents : {0, 99, 100},
     reference : {NoReference} \cup {SomeReference(r) : r \in ReferenceStrings},
     due_date : DueDates]

\* arguments of the setter calls
SetAccounts == {AccountFI73, AccountDE89, AccountGarbage}

SetIbans == {IbanFI79}

SetEuros == {4883, 999999}

SetCents == {15, 100}

SetSums == {103, 488315, 99999900}

SetReferences == {D(<<1, 2, 3, 4, 5>>), RF \o D(<<0, 9, 8, 6, 8, 5>>), RF \o Rep("9", MaxRefLen)}

SetDates == {[y |-> 2010, m |-> 6, d |-> 12]}

SetCalendarDates == {[y |-> 2010, m |-> 6, d |-> 12], [y |-> 2023, m |-> 2, d |-> 29]}

----------------------------------------------------------------------------
(* History: the value last written to each field *)

Unwritten(default) == [set |-> FALSE, val |-> default]

Wrote(v) == [set |-> TRUE, val |-> v]

NothingWritten ==
    [version |-> Unwritten(V5), account_number |-> Unwritten(NoAccountNumber),
     euros |-> Unwritten(0), cents |-> Unwritten(0),
     reference |-> Unwritten(NoReference), due_date |-> Unwritten(NoDueDate)]

\* history of a configuration staged by one call of each setter
AllWritten(b) ==
    [version |-> Wrote(b.version),
     account_number |-> IF b.account_number.tag = "None" THEN Unwritten(NoAccountNumber)
                        ELSE Wrote(b.account_number),
     euros |-> Wrote(b.euros), cents |-> Wrote(b.cents),
     reference |-> IF b.reference.some THEN Wrote(b.reference) ELSE Unwritten(NoReference),
     due_date |-> IF b.due_date.tag = "None" THEN Unwritten(NoDueDate) ELSE Wrote(b.due_date)]

NoResult == [ok |-> FALSE, err |-> "", barcode |-> NoBarcode]

NoOutput == [ok |-> FALSE, s |-> <<>>]

Called(op, n) == [op |-> op, n |-> n]

----------------------------------------------------------------------------
(* The state machine *)

Init ==
    /\ pc = "staging"
    /\ builder = DefaultBuilder
    /\ result = NoResult
    /\ out = NoOutput
    /\ last = NothingWritten
    /\ call = Called("builder", 0)
    /\ ncalls = 0

InitBuild ==
    /\ pc = "staging"
    /\ builder \in StagedBuilders
    /\ result = NoResult
    /\ out = NoOutput
    /\ last = AllWritten(builder)
    /\ call = Called("staged", 0)
    /\ ncalls = 0

Staging == pc = "staging" /\ ncalls < MaxCalls

Setter(op, n) ==
    /\ call' = Called(op, n)
    /\ ncalls' = ncalls + 1
    /\ UNCHANGED <<pc, result, out>>

CallV4 ==
    /\ Staging /\ ncalls = 0
    /\ builder' = v4
    /\ last' = [NothingWritten EXCEPT !.version = Wrote(V4)]
    /\ Setter("v4", 0)

CallV5 ==
    /\ Staging /\ ncalls = 0
    /\ builder' = v5
    /\ last' = [NothingWritten EXCEPT !.version = Wrote(V5)]
    /\ Setter("v5", 0)

CallVersion ==
    /\ Staging
    /\ \E v \in {V4, V5} :
        /\ builder' = version(builder, v)
        /\ last' = [last EXCEPT !.version = Wrote(v)]
    /\ Setter("version", 0)

CallAccountNumber ==
    /\ Staging
    /\ \E a \in SetAccounts :
        /\ builder' = account_number(builder, a)
        /\ last' = [last EXCEPT !.account_number = Wrote(AccountRight(a))]
    /\ Setter("account_number", 0)

CallAccountNumberIban ==
    /\ Staging
    /\ \E a \in SetIbans :
        /\ builder' = account_number_iban(builder, a)
        /\ last' = [last EXCEPT !.account_number = Wrote(AccountLeft(a))]
    /\ Setter("account_number_iban", 0)

CallEuros ==
    /\ Staging
    /\ \E n \in SetEuros :
        /\ builder' = euros(builder, n)
        /\ last' = [last EXCEPT !.euros = Wrote(n)]
        /\ Setter("euros", n)

CallCents ==
    /\ Staging
    /\ \E n \in SetCents :
        /\ builder' = cents(builder, n)
        /\ last' = [last EXCEPT !.cents = Wrote(n)]
        /\ Setter("cents", n)

CallSum ==
    /\ Staging
    /\ \E n \in SetSums :
        /\ builder' = sum(builder, n)
        /\ last' = [last EXCEPT !.euros = Wrote(n \div 100), !.cents = Wrote(n % 100)]
        /\ Setter("sum", n)

CallReference ==
    /\ Staging
    /\ \E r \in SetReferences :
        /\ builder' = reference(builder, r)
        /\ last' = [last EXCEPT !.reference = Wrote(SomeReference(r))]
    /\ Setter("reference", 0)

CallDueDate ==
    /\ Staging
    /\ \E dt \in SetDates :
        /\ builder' = due_date(builder, dt)
        /\ last' = [last EXCEPT !.due_date = Wrote(DueLeft(dt.y, dt.m, dt.d))]
    /\ Setter("due_date", 0)

CallCalendarDueDate ==
    /\ Staging
    /\ \E dt \in SetCalendarDates :
        /\ builder' = calendar_due_date(builder, dt.y, dt.m, dt.d)
        /\ last' = [last EXCEPT !.due_date = Wrote(DueRight(dt.y, dt.m, dt.d))]
    /\ Setter("calendar_due_date", 0)

CallBuild ==
    /\ pc = "staging"
    /\ result' = build(builder)
    /\ pc' = "built"
    /\ call' = Called("build", 0)
    /\ UNCHANGED <<builder, out, last, ncalls>>

CallToString ==
    /\ pc = "built"
    /\ result.ok
    /\ out' = fmt(result.barcode)
    /\ pc' = "encoded"
    /\ call' = Called("to_string", 0)
    /\ UNCHANGED <<builder, result, last, ncalls>>

Next ==
    \/ CallV4
    \/ CallV5
    \/ CallVersion
    \/ CallAccountNumber
    \/ CallAccountNumberIban
    \/ CallEuros
    \/ CallCents
    \/ CallSum
    \/ CallReference
    \/ CallDueDate
    \/ CallCalendarDueDate
    \/ CallBuild
    \/ CallToString

NextBuild ==
    \/ CallBuild
    \/ CallToString

\* a builder from its construction to the encoded string
Spec == Init /\ [][Next]_vars

\* build() and to_string() applied to each staged configuration
SpecBuild == InitBuild /\ [][NextBuild]_vars

----------------------------------------------------------------------------
(* Conditions on a staged configuration, stated on its fields *)

AccountMissing(b) == b.account_number.tag = "None"

AccountUnparsable(b) == b.account_number.tag = "Right" /\ ~IbanParse(b.account_number.val).ok

AccountCountry(b) ==
    IF b.account_number.tag = "Left" THEN Upto(b.account_number.val, 2)
    ELSE Upto(Electronic(b.account_number.val), 2)

AccountResolves(b) == ~AccountMissing(b) /\ ~AccountUnparsable(b)

AccountFinnish(b) == AccountResolves(b) /\ AccountCountry(b) = FI

AmountValid(b) == b.cents < 100 /\ b.euros < 999999

DateInvalid(b) ==
    /\ b.due_date.tag = "Right"
    /\ ~from_calendar_date_ok(b.due_date.y, b.due_date.m, b.due_date.d)

\* the reference the version's checks are applied to and the prefix they require
ReferenceInput(b) ==
    IF b.reference.some THEN b.reference.s
    ELSE IF b.version = V4 THEN <<"0">> ELSE <<"R", "F", "0", "0">>

ReferencePrefixMissing(b) == b.version = V5 /\ ~starts_with(ReferenceInput(b), RF)

ReferenceBody(b) == IF b.version = V5 THEN From(ReferenceInput(b), 2) ELSE ReferenceInput(b)

ReferenceLimit(b) == IF b.version = V4 THEN 20 ELSE 23

ReferenceNonNumeric(b) == ~ReferencePrefixMissing(b) /\ ~ParseU128Ok(ReferenceBody(b))

ReferenceTooLong(b) ==
    /\ ~ReferencePrefixMissing(b)
    /\ ~ReferenceNonNumeric(b)
    /\ Len(ReferenceBody(b)) > ReferenceLimit(b)

ReferenceFails(b) == ReferencePrefixMissing(b) \/ ReferenceNonNumeric(b) \/ ReferenceTooLong(b)

\* every check that does not concern the reference passes
OtherFieldsValid(b) == AccountFinnish(b) /\ AmountValid(b) /\ ~DateInvalid(b)

Built == pc \in {"built", "encoded"}

AllZeros(s) == \A i \in 1..Len(s) : s[i] = "0"

\* s is t filled on the left with zeros up to w characters
ZeroFilledLeft(s, t, w) ==
    /\ Len(s) = w
    /\ Len(t) <= w
    /\ SubSeq(s, w - Len(t) + 1, w) = t
    /\ AllZeros(SubSeq(s, 1, w - Len(t)))

----------------------------------------------------------------------------
(* Claims *)

\* C1: whenever build() succeeds, under V4 and under V5, to_string() yields
\* exactly 54 characters: 1 version digit, 16 account digits, 8 amount digits,
\* 23 characters of reference area and 6 of date, whatever the magnitudes.
C1_Length54 ==
    pc = "encoded" =>
        /\ out.ok
        /\ Len(out.s) = 54
        /\ Len(out.s) = 1 + 16 + 6 + 2 + 23 + 6
        /\ Len(From(result.barcode.account_number, 2)) = 16

C1_Witness ==
    /\ pc = "encoded"
    /\ result.barcode.version = V4
    /\ Len(result.barcode.reference) = 20
    /\ result.barcode.euros = 999998
    /\ result.barcode.cents = 99
    /\ result.barcode.due_date.some

V4DigitReference(b, lo) ==
    /\ b.version = V4
    /\ OtherFieldsValid(b)
    /\ b.reference.some
    /\ AllDigits(b.reference.s)
    /\ Len(b.reference.s) \in lo..20

\* C3 as stated: under V4 every digit string of length <= 20 (the empty string
\* included) is accepted by build().
C3_Original == (pc = "built" /\ V4DigitReference(builder, 0)) => result.ok

\* C3 (amended): under V4 every digit string of length 1..20 is accepted by
\* build(), and characters 29..48 of the encoded string, which follow the
\* literal "000", are that string filled on the left with zeros to 20 digits.
C3_V4Reference ==
    V4DigitReference(builder, 1) =>
        /\ Built => result.ok
        /\ pc = "encoded" =>
              /\ out.ok
              /\ SubSeq(out.s, 26, 28) = <<"0", "0", "0">>
              /\ ZeroFilledLeft(SubSeq(out.s, 29, 48), builder.reference.s, 20)

C3_Witness ==
    /\ pc = "encoded"
    /\ V4DigitReference(builder, 1)
    /\ Len(builder.reference.s) = 5
    /\ ~AllZeros(builder.reference.s)

\* a V5 reference "RF" followed by decimal digits only, their number between lo and 23
V5DigitReference(b, lo) ==
    /\ b.version = V5
    /\ OtherFieldsValid(b)
    /\ b.reference.some
    /\ starts_with(b.reference.s, RF)
    /\ AllDigits(From(b.reference.s, 2))
    /\ Len(From(b.reference.s, 2)) \in lo..23

\* C4 as stated: under V5 every reference "RF" + digits with at most 23 digits
\* ("RF" alone included) is accepted by build().
C4_Original == (pc = "built" /\ V5DigitReference(builder, 0)) => result.ok

\* C4 (amended): under V5 every reference "RF" + digits with 1..23 digits is
\* accepted by build(); with one digit the type field (characters 26..27) is
\* that digit followed by a zero and the remainder field (characters 28..48)
\* is all zeros; with two or more digits the type field is the first two
\* digits and the remainder field is the other digits filled on the left with
\* zeros to 21 digits.
C4_V5Reference ==
    V5DigitReference(builder, 1) =>
        LET digits == From(builder.reference.s, 2)
        IN  /\ Built => result.ok
            /\ pc = "encoded" =>
                  /\ out.ok
                  /\ Len(digits) < 2 =>
                        /\ SubSeq(out.s, 26, 27) = digits \o <<"0">>
                        /\ SubSeq(out.s, 28, 48) = Rep("0", 21)
                  /\ Len(digits) >= 2 =>
                        /\ SubSeq(out.s, 26, 27) = SubSeq(digits, 1, 2)
                        /\ ZeroFilledLeft(SubSeq(out.s, 28, 48), From(digits, 2), 21)

C4_Witness ==
    /\ pc = "encoded"
    /\ V5DigitReference(builder, 1)
    /\ Len(builder.reference.s) = 3
    /\ builder.reference.s[3] # "0"

\* C5: the reference stored by a successful build() consists of decimal digits
\* only, at most 20 of them under V4 and 23 under V5, and so every character
\* of the encoded string is a decimal digit.
C5_DigitsOnly ==
    (Built /\ result.ok) =>
        /\ AllDigits(result.barcode.reference)
        /\ Len(result.barcode.reference) <= (IF result.barcode.version = V4 THEN 20 ELSE 23)
        /\ pc = "encoded" => (out.ok /\ AllDigits(out.s))

\* C6: when every earlier check passes and the reference is a digit string
\* (after "RF" under V5) longer than the version's limit, build() fails with
\* ReferenceTooLarge, whatever the length.
C6_TooLarge ==
    (/\ pc = "built"
     /\ AccountFinnish(builder) /\ AmountValid(builder)
     /\ builder.reference.some
     /\ ~ReferencePrefixMissing(builder)
     /\ AllDigits(ReferenceBody(builder))
     /\ Len(ReferenceBody(builder)) > ReferenceLimit(builder))
        => (~result.ok /\ result.err = "ReferenceTooLarge")

\* C7: a step sum(n) leaves the builder as euros(n / 100) followed by
\* cents(n % 100) would: both fields are overwritten, no other field changes,
\* cents is below 100, build() gives the same result, and the 8-digit amount
\* segment is n in decimal whenever n / 100 is an amount build() accepts.
C7_SumIsEurosCents ==
    [][call'.op = "sum" =>
          /\ builder' = cents(euros(builder, call'.n \div 100), call'.n % 100)
          /\ builder'.euros * 100 + builder'.cents = call'.n
          /\ builder'.cents < 100
          /\ build(builder') = build(cents(euros(builder, call'.n \div 100), call'.n % 100))
          /\ (call'.n \div 100 < 999999 =>
                 ZeroFilledLeft(AmountSegment(builder'.euros, builder'.cents),
                                ToDigits(call'.n), 8))]_vars

C7_Witness ==
    /\ call.op = "sum"
    /\ call.n = 488315
    /\ ncalls = 3
    /\ builder.euros = 4883
    /\ builder.cents = 15
    /\ builder.reference.some

\* only the account (and possibly the version) was ever set, to a valid FI account
OnlyAccountSet ==
    /\ last.account_number.set
    /\ AccountFinnish(builder)
    /\ ~last.euros.set /\ ~last.cents.set /\ ~last.reference.set /\ ~last.due_date.set

\* C8: fields never set take their defaults at build time: the version is V5
\* unless set; with only a valid FI account set build() succeeds under both
\* versions with euros 0, cents 0, no due date and the reference "00" (V5) or
\* "0" (V4), and every character after the 16 account digits is "0".
C8_Defaults ==
    /\ ~last.version.set => builder.version = V5
    /\ OnlyAccountSet =>
          /\ Built =>
                /\ result.ok
                /\ result.barcode.euros = 0
                /\ result.barcode.cents = 0
                /\ ~result.barcode.due_date.some
                /\ result.barcode.reference =
                       (IF builder.version = V5 THEN <<"0", "0">> ELSE <<"0">>)
          /\ pc = "encoded" =>
                /\ out.ok
                /\ Len(out.s) = 54
                /\ From(out.s, 17) = Rep("0", 37)

C8_Witness ==
    /\ pc = "encoded"
    /\ OnlyAccountSet
    /\ ~last.version.set
    /\ out.s[1] = "5"

\* the configuration made of the last-written value of each field, or its default
FromLast(l) ==
    [version |-> l.version.val, account_number |-> l.account_number.val,
     euros |-> l.euros.val, cents |-> l.cents.val,
     reference |-> l.reference.val, due_date |-> l.due_date.val]

\* C9: the builder always holds, for each field, the value last written to it
\* (the default if none was), so build() depends only on the last-written
\* values and not on the order of the calls; a reference that was never set
\* is resolved from the version in force at build time.
C9_LastWriteWins ==
    /\ builder = FromLast(last)
    /\ Built => result = build(FromLast(last))
    /\ (Built /\ result.ok /\ ~last.reference.set) =>
           result.barcode.reference =
               (IF last.version.val = V4 THEN <<"0">> ELSE <<"0", "0">>)

C9_Witness ==
    /\ pc = "staging"
    /\ call.op = "version"
    /\ builder.version = V4
    /\ last.reference.set
    /\ last.account_number.set

\* C10: to_string() completes on every record build() returns, and under V5
\* the string cut into type field and remainder has at least 2 characters.
C10_NoEncoderFailure ==
    /\ (Built /\ result.ok) =>
           /\ fmt(result.barcode).ok
           /\ Len(result.barcode.account_number) >= 2
           /\ result.barcode.version = V5 => Len(RefNro(result.barcode.reference)) >= 2
    /\ pc = "encoded" => out.ok

C10_Witness ==
    /\ pc = "encoded"
    /\ result.barcode.version = V5
    /\ Len(result.barcode.reference) = 1
    /\ out.ok
====
